---- MODULE Spec2Model ----
(***************************************************************************)
(* Trip analyzer: CSV ingestion into a zone count table and a slot count   *)
(* table, and the two top-k queries.  Two builds of TripAnalyzer exist in  *)
(* the repository:                                                         *)
(*   src/analyzer.cpp      header line discarded, fixed 6-column records,  *)
(*                         nested slot table, bounded heap for slots       *)
(*   src/unnamed/part_000  no header, time in field 2 or else field 3,     *)
(*                         flat "zone|hour" slot table, nth_element        *)
(* Text is a sequence of one-character strings, indexed from 0 as in the   *)
(* source (At).                                                            *)
(***************************************************************************)
EXTENDS Integers, Sequences, FiniteSets, TLC

VARIABLES
    build,        \* which translation unit is linked: "analyzer.cpp" or "part_000"
    zoneCounts_,  \* analyzer.cpp: zone -> count
    slotCounts_,  \* analyzer.cpp: zone -> (hour -> count)
    zoneCounts,   \* part_000: zone -> count
    slotCounts,   \* part_000: "zone|hour" -> count
    csvPath,      \* the source of the current / last ingestFile call
    pos,          \* number of lines getline has consumed from the open file
    pc,           \* "idle" (no call in progress) or "reading" (inside ingestFile's loop)
    before,       \* history of the last ingestFile call: what it was called on top of
    out,          \* the value returned by the last query
    dt,           \* hour extractor harness: the date-time field under test
    parsed        \* hour extractor harness: the outcome of the extraction

vars == <<build, zoneCounts_, slotCounts_, zoneCounts, slotCounts,
          csvPath, pos, pc, before, out, dt, parsed>>

----------------------------------------------------------------------------
(* Bounds of the model *)

MaxLen == 6

MaxLines == 3

MaxK == 3

MaxCount == 2

----------------------------------------------------------------------------
(* Characters and strings *)

At(s, i) == s[i + 1]

npos == 2147483647

Digits == <<"0", "1", "2", "3", "4", "5", "6", "7", "8", "9">>

is_space(c) == c \in {" ", "\t", "\n", "\r", "\f"}

is_digit(c) == \E d \in 1..10 : Digits[d] = c

\* c - '0' for a decimal digit c
DigitVal(c) == (CHOOSE d \in 1..10 : Digits[d] = c) - 1

\* std::string::find(ch, from)
find(s, ch, from) ==
    LET hits == {i \in from..(Len(s) - 1) : At(s, i) = ch}
    IN  IF hits = {} THEN npos
        ELSE CHOOSE i \in hits : \A j \in hits : i <= j

\* std::string::substr(b, n) with b + n <= size
substr(s, b, n) == [i \in 1..n |-> s[b + i]]

RECURSIVE trim_front(_, _, _)
trim_front(s, b, e) ==
    IF b < e /\ is_space(At(s, b)) THEN trim_front(s, b + 1, e) ELSE b

RECURSIVE trim_back(_, _, _)
trim_back(s, b, e) ==
    IF e > b /\ is_space(At(s, e - 1)) THEN trim_back(s, b, e - 1) ELSE e

trim_range(s, b, e) ==
    LET b1 == trim_front(s, b, e)
    IN  [b |-> b1, e |-> trim_back(s, b1, e)]

\* while (i > b && is_space(s[i])) --i;
RECURSIVE skip_space_back(_, _, _)
skip_space_back(s, i, b) ==
    IF i > b /\ is_space(At(s, i)) THEN skip_space_back(s, i - 1, b) ELSE i

----------------------------------------------------------------------------
(* Hour extractor *)

\* Returns [ok, hour]; hour is hour_out, left as passed in when ok is FALSE.
parse_hour_from_datetime(s, b0, e0, hour_out) ==
    LET r      == trim_range(s, b0, e0)
        b      == r.b
        e      == r.e
        sp     == find(s, " ", b)
        colon  == find(s, ":", sp + 1)
        m0     == colon + 1
        minute == DigitVal(At(s, m0)) * 10 + DigitVal(At(s, m0 + 1))
        i      == skip_space_back(s, colon - 1, b)
        units  == DigitVal(At(s, i))
        p      == skip_space_back(s, i - 1, b)
        hour   == IF i > b /\ is_digit(At(s, p))
                  THEN DigitVal(At(s, p)) * 10 + units
                  ELSE units
        fail   == [ok |-> FALSE, hour |-> hour_out]
    IN  IF b >= e THEN fail
        ELSE IF sp = npos \/ sp >= e THEN fail
        ELSE IF colon = npos \/ colon >= e THEN fail
        ELSE IF m0 + 1 >= e THEN fail
        ELSE IF ~is_digit(At(s, m0)) \/ ~is_digit(At(s, m0 + 1)) THEN fail
        ELSE IF minute < 0 \/ minute > 59 THEN fail
        ELSE IF colon = 0 THEN fail
        ELSE IF ~is_digit(At(s, i)) THEN fail
        ELSE IF hour < 0 \/ hour > 23 THEN fail
        ELSE [ok |-> TRUE, hour |-> hour]

----------------------------------------------------------------------------
(* Aggregate tables: unordered_map as a function on the keys present *)

EmptyMap == <<>>

\* m[key] += 1 (operator[] value-initialises a missing entry to 0)
MapInc(m, key) ==
    [x \in DOMAIN m \cup {key} |->
        IF x = key THEN (IF key \in DOMAIN m THEN m[key] + 1 ELSE 1) ELSE m[x]]

\* Mutant: the zone's inner map is replaced instead of updated.
NestedInc_overwrite(m, zone, hour) ==
    [z \in DOMAIN m \cup {zone} |->
        IF z = zone THEN MapInc(EmptyMap, hour) ELSE m[z]]

\* m[zone][hour] += 1
NestedInc(m, zone, hour) ==
    LET inner == IF zone \in DOMAIN m THEN m[zone] ELSE EmptyMap
    IN  [z \in DOMAIN m \cup {zone} |->
            IF z = zone THEN MapInc(inner, hour) ELSE m[z]]

----------------------------------------------------------------------------
(* analyzer.cpp: one pass of the body of ingestFile's while loop *)

\* Mutant: the zone is taken from field 0 instead of field 1.
ingestLine_B_field0(zc, sc, line) ==
    LET c0   == find(line, ",", 0)
        c1   == find(line, ",", c0 + 1)
        c2   == find(line, ",", c1 + 1)
        c3   == find(line, ",", c2 + 1)
        c4   == find(line, ",", c3 + 1)
        z    == trim_range(line, 0, c0)
        d    == trim_range(line, c2 + 1, c3)
        h    == parse_hour_from_datetime(line, d.b, d.e, -1)
        zone == substr(line, z.b, z.e - z.b)
        skip == [zoneCounts |-> zc, slotCounts |-> sc]
    IN  IF Len(line) = 0 THEN skip
        ELSE IF c0 = npos \/ c1 = npos \/ c2 = npos \/ c3 = npos \/ c4 = npos THEN skip
        ELSE IF z.b >= z.e THEN skip
        ELSE IF d.b >= d.e THEN skip
        ELSE IF ~h.ok THEN skip
        ELSE [zoneCounts |-> MapInc(zc, zone),
              slotCounts |-> NestedInc(sc, zone, h.hour)]

ingestLine_B(zc, sc, line) ==
    LET c0   == find(line, ",", 0)
        c1   == find(line, ",", c0 + 1)
        c2   == find(line, ",", c1 + 1)
        c3   == find(line, ",", c2 + 1)
        c4   == find(line, ",", c3 + 1)
        z    == trim_range(line, c0 + 1, c1)
        d    == trim_range(line, c2 + 1, c3)
        h    == parse_hour_from_datetime(line, d.b, d.e, -1)
        zone == substr(line, z.b, z.e - z.b)
        skip == [zoneCounts |-> zc, slotCounts |-> sc]
    IN  IF Len(line) = 0 THEN skip
        ELSE IF c0 = npos THEN skip
        ELSE IF c1 = npos THEN skip
        ELSE IF c2 = npos THEN skip
        ELSE IF c3 = npos THEN skip
        ELSE IF c4 = npos THEN skip
        ELSE IF z.b >= z.e THEN skip
        ELSE IF d.b >= d.e THEN skip
        ELSE IF ~h.ok THEN skip
        ELSE [zoneCounts |-> MapInc(zc, zone),
              slotCounts |-> NestedInc(sc, zone, h.hour)]

----------------------------------------------------------------------------
(* part_000: field lookup, slot keys, one pass of the loop body *)

\* for (i = 0; i < line.size(); ++i) if (line[i] == ',') commas.push_back(i);
comma_positions(line) ==
    LET idx == SelectSeq([i \in 1..Len(line) |-> i], LAMBDA i : line[i] = ",")
    IN  [j \in 1..Len(idx) |-> idx[j] - 1]

\* Returns [ok, b, e]; commas is 0-indexed in the source (At).
field_range(line, commas, idx) ==
    IF idx = 0
    THEN [ok |-> TRUE, b |-> 0,
          e |-> IF Len(commas) = 0 THEN Len(line) ELSE At(commas, 0)]
    ELSE IF idx - 1 >= Len(commas) THEN [ok |-> FALSE, b |-> 0, e |-> 0]
    ELSE LET b  == At(commas, idx - 1) + 1
             e0 == IF idx < Len(commas) THEN At(commas, idx) ELSE Len(line)
         IN  IF b > Len(line) THEN [ok |-> FALSE, b |-> b, e |-> e0]
             ELSE [ok |-> TRUE, b |-> b, e |-> IF e0 > Len(line) THEN Len(line) ELSE e0]

\* std::to_string(int)
RECURSIVE to_string(_)
to_string(n) ==
    IF n < 0 THEN <<"-">> \o to_string(-n)
    ELSE IF n < 10 THEN <<Digits[n + 1]>>
    ELSE to_string(n \div 10) \o <<Digits[(n % 10) + 1]>>

make_slot_key(zone, hour) == zone \o <<"|">> \o to_string(hour)

parse_hour_field_candidate(line, commas, fieldIdx, hour_out) ==
    LET f == field_range(line, commas, fieldIdx)
        t == trim_range(line, f.b, f.e)
    IN  IF ~f.ok THEN [ok |-> FALSE, hour |-> hour_out]
        ELSE IF t.b >= t.e THEN [ok |-> FALSE, hour |-> hour_out]
        ELSE parse_hour_from_datetime(line, t.b, t.e, hour_out)

\* Mutant: the zone is counted before the hour is extracted.
ingestLine_A_partial(zc, sc, line) ==
    LET commas == comma_positions(line)
        f      == field_range(line, commas, 1)
        z      == trim_range(line, f.b, f.e)
        h2     == parse_hour_field_candidate(line, commas, 2, -1)
        h      == IF h2.ok THEN h2
                  ELSE parse_hour_field_candidate(line, commas, 3, h2.hour)
        zone   == substr(line, z.b, z.e - z.b)
        skip   == [zoneCounts |-> zc, slotCounts |-> sc]
    IN  IF Len(line) = 0 THEN skip
        ELSE IF ~f.ok THEN skip
        ELSE IF z.b >= z.e THEN skip
        ELSE IF ~h.ok THEN [zoneCounts |-> MapInc(zc, zone), slotCounts |-> sc]
        ELSE [zoneCounts |-> MapInc(zc, zone),
              slotCounts |-> MapInc(sc, make_slot_key(zone, h.hour))]

ingestLine_A(zc, sc, line) ==
    LET commas == comma_positions(line)
        f      == field_range(line, commas, 1)
        z      == trim_range(line, f.b, f.e)
        h2     == parse_hour_field_candidate(line, commas, 2, -1)
        h      == IF h2.ok THEN h2
                  ELSE parse_hour_field_candidate(line, commas, 3, h2.hour)
        zone   == substr(line, z.b, z.e - z.b)
        skip   == [zoneCounts |-> zc, slotCounts |-> sc]
    IN  IF Len(line) = 0 THEN skip
        ELSE IF ~f.ok THEN skip
        ELSE IF z.b >= z.e THEN skip
        ELSE IF ~h.ok THEN skip
        ELSE [zoneCounts |-> MapInc(zc, zone),
              slotCounts |-> MapInc(sc, make_slot_key(zone, h.hour))]

----------------------------------------------------------------------------
(* Sources: files are sequences of lines (as getline delivers them) *)

L_A0915   == <<"A", ",", "1", ",", ",", "2", "0", "2", "4", "-", "0", "1", "-", "0", "5", " ", "0", "9", ":", "1", "5", ",", ",">>
L_A0945   == <<"A", ",", "1", ",", ",", "2", "0", "2", "4", "-", "0", "1", "-", "0", "5", " ", "0", "9", ":", "4", "5", ",", ",">>
L_B1000   == <<"B", ",", "1", ",", ",", "2", "0", "2", "4", "-", "0", "1", "-", "0", "5", " ", "1", "0", ":", "0", "0", ",", ",">>
L_12359   == <<"7", ",", "1", ",", ",", "x", " ", "2", "3", ":", "5", "9", ",", ",">>
L_two     == <<"7", ",", "A", "|", "1", ",", "A", " ", "0", "5", ":", "0", "7", ",", "x", " ", "0", "9", ":", "3", "0", ",", ",">>
L_badhour == <<"7", ",", "Z", ",", ",", "x", " ", "2", "4", ":", "0", "0", ",", ",">>
L_nozone  == <<"7", ",", " ", ",", ",", "x", " ", "0", "9", ":", "1", "5", ",", ",">>
L_short   == <<"7", ",", "Z">>
L_empty   == <<>>
L_header  == <<"h", ",", "h", ",", "h", ",", "h", ",", "h", ",", "h">>

\* Lines the generated files are made of: three records (two hours of one zone, a
\* second zone whose field 2 also holds a time), a bad hour, an empty line.
LineSet == {L_A0915, L_12359, L_two, L_badhour, L_empty}

\* The end-to-end dataset: a header line and three rows.
EndToEndFile == <<L_header, L_A0915, L_A0945, L_B1000>>

\* Records of one zone in two hours around a bad hour and an empty line.
MixedFile == <<L_header, L_A0915, L_badhour, L_empty, L_12359>>

\* Files with a blank zone field and with too few fields, and the two above.
ExtraFiles ==
    { <<L_nozone>>, <<L_short>>, <<L_A0915, L_nozone, L_two>>, <<L_two, L_short, L_12359>>,
      MixedFile, EndToEndFile }

\* Lines assembled from fields: a zone field that is empty, blank, padded or holds
\* a bar; a field 2 with or without a time; a field 3 that is empty, a time, a time
\* with inner spaces, an hour of 24, a time without a date, a one-digit hour after
\* a date that ends in a digit; two to six columns.
ZoneFields == {<<>>, <<" ">>, <<" ", "Z", "\t">>, <<"A", "|", "1">>}

Field2s == {<<>>, <<"A", " ", "0", "5", ":", "0", "7">>}

Field3s ==
    { <<>>,
      <<"x", " ", "0", "9", ":", "1", "5">>,
      <<"x", " ", " ", "9", " ", ":", "3", "0">>,
      <<"x", " ", "2", "4", ":", "0", "0">>,
      <<"0", "9", ":", "1", "5">>,
      <<"1", " ", "9", ":", "3", "0">> }

LineTails == {<<>>, <<",">>, <<",", ",">>}

GenLines ==
    {<<"7", ",">> \o z : z \in ZoneFields}
    \cup {<<"7", ",">> \o z \o <<",">> \o f2 : z \in ZoneFields, f2 \in Field2s}
    \cup {<<"7", ",">> \o z \o <<",">> \o f2 \o <<",">> \o f3 \o t :
             z \in ZoneFields, f2 \in Field2s, f3 \in Field3s, t \in LineTails}

\* Each assembled line as the second line of a file.
GenFiles == {<<L_two, g>> : g \in GenLines}

Files == UNION {[1..n -> LineSet] : n \in 0..MaxLines} \cup ExtraFiles \cup GenFiles

MissingFile == [readable |-> FALSE, lines |-> <<>>]

Sources == {[readable |-> TRUE, lines |-> f] : f \in Files} \cup {MissingFile}

----------------------------------------------------------------------------
(* ingestFile *)

NoCall == [called |-> FALSE, populated |-> FALSE, same |-> FALSE]

NoOut == [op |-> "none", k |-> 0, res |-> <<>>]

\* What the call about to start is called on top of.
History(src, populated) ==
    [called |-> TRUE, populated |-> populated, same |-> before.called /\ src = csvPath]

\* Mutant: the tables are not cleared.
ingestFile_B_open_noclear ==
    /\ pc = "idle" /\ build = "analyzer.cpp"
    /\ \E src \in Sources :
         /\ csvPath' = src
         /\ before' = History(src, zoneCounts_ # EmptyMap \/ slotCounts_ # EmptyMap)
         /\ IF ~src.readable THEN pc' = "idle" /\ pos' = 0
            ELSE IF Len(src.lines) = 0 THEN pc' = "idle" /\ pos' = 0
            ELSE pc' = "reading" /\ pos' = 1
    /\ out' = NoOut
    /\ UNCHANGED <<build, zoneCounts_, slotCounts_, zoneCounts, slotCounts, dt, parsed>>

\* Mutant: the first line is not discarded.
ingestFile_B_open_keepheader ==
    /\ pc = "idle" /\ build = "analyzer.cpp"
    /\ \E src \in Sources :
         /\ csvPath' = src
         /\ before' = History(src, zoneCounts_ # EmptyMap \/ slotCounts_ # EmptyMap)
         /\ zoneCounts_' = EmptyMap
         /\ slotCounts_' = EmptyMap
         /\ IF ~src.readable THEN pc' = "idle" ELSE pc' = "reading"
    /\ pos' = 0
    /\ out' = NoOut
    /\ UNCHANGED <<build, zoneCounts, slotCounts, dt, parsed>>

\* analyzer.cpp: clear, open, read and discard the first line
ingestFile_B_open ==
    /\ pc = "idle" /\ build = "analyzer.cpp"
    /\ \E src \in Sources :
         /\ csvPath' = src
         /\ before' = History(src, zoneCounts_ # EmptyMap \/ slotCounts_ # EmptyMap)
         /\ zoneCounts_' = EmptyMap
         /\ slotCounts_' = EmptyMap
         /\ IF ~src.readable THEN pc' = "idle" /\ pos' = 0
            ELSE IF Len(src.lines) = 0 THEN pc' = "idle" /\ pos' = 0
            ELSE pc' = "reading" /\ pos' = 1
    /\ out' = NoOut
    /\ UNCHANGED <<build, zoneCounts, slotCounts, dt, parsed>>

\* analyzer.cpp: while (getline(file, line)) { ... }
ingestFile_B_getline ==
    /\ pc = "reading" /\ build = "analyzer.cpp"
    /\ IF pos < Len(csvPath.lines)
       THEN LET t == ingestLine_B(zoneCounts_, slotCounts_, csvPath.lines[pos + 1])
            IN  /\ zoneCounts_' = t.zoneCounts
                /\ slotCounts_' = t.slotCounts
                /\ pos' = pos + 1
                /\ pc' = "reading"
       ELSE /\ pc' = "idle"
            /\ UNCHANGED <<zoneCounts_, slotCounts_, pos>>
    /\ UNCHANGED <<build, zoneCounts, slotCounts, csvPath, before, out, dt, parsed>>

\* Mutant: the tables are cleared only once the file is open.
ingestFile_A_open_lateclear ==
    /\ pc = "idle" /\ build = "part_000"
    /\ \E src \in Sources :
         /\ csvPath' = src
         /\ before' = History(src, zoneCounts # EmptyMap \/ slotCounts # EmptyMap)
         /\ IF ~src.readable
            THEN pc' = "idle" /\ UNCHANGED <<zoneCounts, slotCounts>>
            ELSE pc' = "reading" /\ zoneCounts' = EmptyMap /\ slotCounts' = EmptyMap
    /\ pos' = 0
    /\ out' = NoOut
    /\ UNCHANGED <<build, zoneCounts_, slotCounts_, dt, parsed>>

\* part_000: clear, open
ingestFile_A_open ==
    /\ pc = "idle" /\ build = "part_000"
    /\ \E src \in Sources :
         /\ csvPath' = src
         /\ before' = History(src, zoneCounts # EmptyMap \/ slotCounts # EmptyMap)
         /\ zoneCounts' = EmptyMap
         /\ slotCounts' = EmptyMap
         /\ IF ~src.readable THEN pc' = "idle" ELSE pc' = "reading"
    /\ pos' = 0
    /\ out' = NoOut
    /\ UNCHANGED <<build, zoneCounts_, slotCounts_, dt, parsed>>

\* part_000: while (getline(file, line)) { ... }
ingestFile_A_getline ==
    /\ pc = "reading" /\ build = "part_000"
    /\ IF pos < Len(csvPath.lines)
       THEN LET t == ingestLine_A(zoneCounts, slotCounts, csvPath.lines[pos + 1])
            IN  /\ zoneCounts' = t.zoneCounts
                /\ slotCounts' = t.slotCounts
                /\ pos' = pos + 1
                /\ pc' = "reading"
       ELSE /\ pc' = "idle"
            /\ UNCHANGED <<zoneCounts, slotCounts, pos>>
    /\ UNCHANGED <<build, zoneCounts_, slotCounts_, csvPath, before, out, dt, parsed>>

----------------------------------------------------------------------------
(* Ranking order *)

\* The byte value of each character that occurs in a line of the model.
Ascii ==
    ("\t" :> 9) @@ ("\n" :> 10) @@ ("\f" :> 12) @@ ("\r" :> 13) @@ (" " :> 32) @@
    ("," :> 44) @@ ("-" :> 45) @@ ("0" :> 48) @@ ("1" :> 49) @@ ("2" :> 50) @@
    ("3" :> 51) @@ ("4" :> 52) @@ ("5" :> 53) @@ ("6" :> 54) @@ ("7" :> 55) @@
    ("8" :> 56) @@ ("9" :> 57) @@ (":" :> 58) @@ ("A" :> 65) @@ ("B" :> 66) @@
    ("Z" :> 90) @@ ("h" :> 104) @@ ("x" :> 120) @@ ("|" :> 124)

\* std::string operator< : lexicographic by byte
RECURSIVE string_less(_, _)
string_less(a, b) ==
    IF b = <<>> THEN FALSE
    ELSE IF a = <<>> THEN TRUE
    ELSE IF Head(a) = Head(b) THEN string_less(Tail(a), Tail(b))
    ELSE Ascii[Head(a)] < Ascii[Head(b)]

better_zone(a, b) ==
    IF a.count # b.count THEN a.count > b.count
    ELSE string_less(a.zone, b.zone)

better_slot(a, b) ==
    IF a.count # b.count THEN a.count > b.count
    ELSE IF a.zone # b.zone THEN string_less(a.zone, b.zone)
    ELSE a.hour < b.hour

----------------------------------------------------------------------------
(* Library algorithms.  An unordered_map is iterated in an unspecified     *)
(* order and nth_element leaves any arrangement that meets its             *)
(* postcondition, so both are sets of possible outcomes.                   *)

RECURSIVE SetToSeq(_)
SetToSeq(S) ==
    IF S = {} THEN <<>>
    ELSE LET x == CHOOSE y \in S : TRUE IN <<x>> \o SetToSeq(S \ {x})

\* Every order in which the elements of S can be visited.
Orders(S) ==
    LET base == SetToSeq(S)
        n    == Cardinality(S)
    IN  {[i \in 1..n |-> base[p[i]]] : p \in Permutations(1..n)}

\* std::sort(v.begin(), v.end(), better_zone)
RECURSIVE insert_zone(_, _)
insert_zone(sorted, x) ==
    IF sorted = <<>> THEN <<x>>
    ELSE IF better_zone(x, Head(sorted)) THEN <<x>> \o sorted
    ELSE <<Head(sorted)>> \o insert_zone(Tail(sorted), x)

RECURSIVE sort_zones(_)
sort_zones(v) ==
    IF v = <<>> THEN <<>> ELSE insert_zone(sort_zones(Tail(v)), Head(v))

\* std::sort(v.begin(), v.end(), better_slot)
RECURSIVE insert_slot(_, _)
insert_slot(sorted, x) ==
    IF sorted = <<>> THEN <<x>>
    ELSE IF better_slot(x, Head(sorted)) THEN <<x>> \o sorted
    ELSE <<Head(sorted)>> \o insert_slot(Tail(sorted), x)

RECURSIVE sort_slots(_)
sort_slots(v) ==
    IF v = <<>> THEN <<>> ELSE insert_slot(sort_slots(Tail(v)), Head(v))

\* nth_element(v.begin(), v.begin() + k, v.end(), better_zone) over the elements S:
\* nothing from position k on is better than anything before it, and position k
\* holds what a full sort would put there.
nth_element_zone(S, k) ==
    {w \in Orders(S) :
        /\ \A i \in 1..k, j \in (k + 1)..Len(w) : ~better_zone(w[j], w[i])
        /\ \A j \in (k + 2)..Len(w) : ~better_zone(w[j], w[k + 1])}

nth_element_slot(S, k) ==
    {w \in Orders(S) :
        /\ \A i \in 1..k, j \in (k + 1)..Len(w) : ~better_slot(w[j], w[i])
        /\ \A j \in (k + 2)..Len(w) : ~better_slot(w[j], w[k + 1])}

\* v.resize(k) with k < v.size()
resize(v, k) == SubSeq(v, 1, k)

----------------------------------------------------------------------------
(* topZones: every value the call can return *)

zone_entries(table) == {[zone |-> z, count |-> table[z]] : z \in DOMAIN table}

\* Mutant: the vector is cut to k entries without the nth_element call.
topZones_no_nth(table, k) ==
    IF k <= 0 \/ table = EmptyMap THEN {<<>>}
    ELSE IF Cardinality(zone_entries(table)) <= k
         THEN {sort_zones(v) : v \in Orders(zone_entries(table))}
         ELSE {sort_zones(resize(w, k)) : w \in Orders(zone_entries(table))}

topZones(table, k) ==
    IF k <= 0 \/ table = EmptyMap THEN {<<>>}
    ELSE IF Cardinality(zone_entries(table)) <= k
         THEN {sort_zones(v) : v \in Orders(zone_entries(table))}
         ELSE {sort_zones(resize(w, k)) : w \in nth_element_zone(zone_entries(table), k)}

----------------------------------------------------------------------------
(* analyzer.cpp topBusySlots: bounded heap whose top is the worst kept entry *)

\* priority_queue<..., worse>::top() with worse = better_slot
pq_top(pq) == CHOOSE x \in pq : \A y \in pq \ {x} : ~better_slot(x, y)

\* Mutant: a full heap never evicts.
RECURSIVE heap_loop_noevict(_, _, _)
heap_loop_noevict(pq, v, k) ==
    IF v = <<>> THEN pq
    ELSE LET cand == Head(v)
             next == IF cand.count = 0 THEN pq
                     ELSE IF Cardinality(pq) < k THEN pq \cup {cand}
                     ELSE pq
         IN  heap_loop_noevict(next, Tail(v), k)

\* The loop body for the candidates v, in the order they are visited.
RECURSIVE heap_loop(_, _, _)
heap_loop(pq, v, k) ==
    IF v = <<>> THEN pq
    ELSE LET cand == Head(v)
             next == IF cand.count = 0 THEN pq
                     ELSE IF Cardinality(pq) < k THEN pq \cup {cand}
                     ELSE IF better_slot(cand, pq_top(pq))
                          THEN (pq \ {pq_top(pq)}) \cup {cand}
                          ELSE pq
         IN  heap_loop(next, Tail(v), k)

\* while (!pq.empty()) { out.push_back(pq.top()); pq.pop(); }
RECURSIVE pq_drain(_)
pq_drain(pq) ==
    IF pq = {} THEN <<>>
    ELSE <<pq_top(pq)>> \o pq_drain(pq \ {pq_top(pq)})

RECURSIVE Flatten(_)
Flatten(ss) == IF ss = <<>> THEN <<>> ELSE Head(ss) \o Flatten(Tail(ss))

\* The candidates in every order the nested loops can visit them.
nested_visits(sc) ==
    LET hourOrders(z) ==
            {[i \in 1..Len(hs) |-> [zone |-> z, hour |-> hs[i], count |-> sc[z][hs[i]]]] :
                hs \in Orders(DOMAIN sc[z])}
        all == UNION {hourOrders(z) : z \in DOMAIN sc}
    IN  {Flatten([i \in 1..Len(zs) |-> f[zs[i]]]) :
            zs \in Orders(DOMAIN sc),
            f \in {g \in [DOMAIN sc -> all] : \A z \in DOMAIN sc : g[z] \in hourOrders(z)}}

topBusySlots_B(sc, k) ==
    IF k <= 0 \/ sc = EmptyMap THEN {<<>>}
    ELSE {sort_slots(pq_drain(heap_loop({}, v, k))) : v \in nested_visits(sc)}

----------------------------------------------------------------------------
(* part_000 topBusySlots: decode the flat keys, partition, sort *)

\* std::string::rfind(ch)
rfind(s, ch) ==
    LET hits == {i \in 0..(Len(s) - 1) : At(s, i) = ch}
    IN  IF hits = {} THEN npos
        ELSE CHOOSE i \in hits : \A j \in hits : i >= j

\* The digit loop of parse_key_zone_hour from position p; [ok, hour, digits].
RECURSIVE key_digits(_, _, _, _)
key_digits(key, p, hour, digits) ==
    IF p >= Len(key) THEN [ok |-> TRUE, hour |-> hour, digits |-> digits]
    ELSE IF ~is_digit(At(key, p)) THEN [ok |-> FALSE, hour |-> hour, digits |-> digits]
    ELSE IF digits + 1 > 2
         THEN [ok |-> FALSE, hour |-> hour * 10 + DigitVal(At(key, p)), digits |-> digits + 1]
         ELSE key_digits(key, p + 1, hour * 10 + DigitVal(At(key, p)), digits + 1)

\* Returns [ok, zone, hour].
parse_key_zone_hour(key) ==
    LET bar  == rfind(key, "|")
        zone == substr(key, 0, bar)
        d    == key_digits(key, bar + 1, 0, 0)
        fail == [ok |-> FALSE, zone |-> <<>>, hour |-> -1]
    IN  IF bar = npos THEN fail
        ELSE IF zone = <<>> THEN fail
        ELSE IF bar + 1 >= Len(key) THEN fail
        ELSE IF ~d.ok THEN fail
        ELSE IF d.digits = 0 \/ d.hour < 0 \/ d.hour > 23 THEN fail
        ELSE [ok |-> TRUE, zone |-> zone, hour |-> d.hour]

\* The entries pushed to v: the keys that decode.
flat_entries(sc) ==
    {[zone |-> parse_key_zone_hour(key).zone, hour |-> parse_key_zone_hour(key).hour,
      count |-> sc[key]] : key \in {x \in DOMAIN sc : parse_key_zone_hour(x).ok}}

topBusySlots_A(sc, k) ==
    IF k <= 0 \/ sc = EmptyMap THEN {<<>>}
    ELSE IF flat_entries(sc) = {} THEN {<<>>}
    ELSE IF Cardinality(flat_entries(sc)) <= k
         THEN {sort_slots(v) : v \in Orders(flat_entries(sc))}
         ELSE {sort_slots(resize(w, k)) : w \in nth_element_slot(flat_entries(sc), k)}

----------------------------------------------------------------------------
(* The queries as calls on the analyzer *)

Ks == -1..MaxK

call_topZones_B ==
    /\ pc = "idle" /\ build \in {"analyzer.cpp", "both"}
    /\ \E k \in Ks : \E r \in topZones(zoneCounts_, k) :
         out' = [op |-> "topZones_B", k |-> k, res |-> r]
    /\ pc' = "returned"
    /\ UNCHANGED <<build, zoneCounts_, slotCounts_, zoneCounts, slotCounts,
                   csvPath, pos, before, dt, parsed>>

call_topBusySlots_B ==
    /\ pc = "idle" /\ build \in {"analyzer.cpp", "both"}
    /\ \E k \in Ks : \E r \in topBusySlots_B(slotCounts_, k) :
         out' = [op |-> "topBusySlots_B", k |-> k, res |-> r]
    /\ pc' = "returned"
    /\ UNCHANGED <<build, zoneCounts_, slotCounts_, zoneCounts, slotCounts,
                   csvPath, pos, before, dt, parsed>>

call_topZones_A ==
    /\ pc = "idle" /\ build \in {"part_000", "both"}
    /\ \E k \in Ks : \E r \in topZones(zoneCounts, k) :
         out' = [op |-> "topZones_A", k |-> k, res |-> r]
    /\ pc' = "returned"
    /\ UNCHANGED <<build, zoneCounts_, slotCounts_, zoneCounts, slotCounts,
                   csvPath, pos, before, dt, parsed>>

call_topBusySlots_A ==
    /\ pc = "idle" /\ build \in {"part_000", "both"}
    /\ \E k \in Ks : \E r \in topBusySlots_A(slotCounts, k) :
         out' = [op |-> "topBusySlots_A", k |-> k, res |-> r]
    /\ pc' = "returned"
    /\ UNCHANGED <<build, zoneCounts_, slotCounts_, zoneCounts, slotCounts,
                   csvPath, pos, before, dt, parsed>>

\* The caller takes the returned vector.
query_return ==
    /\ pc = "returned"
    /\ pc' = "idle"
    /\ out' = NoOut
    /\ UNCHANGED <<build, zoneCounts_, slotCounts_, zoneCounts, slotCounts,
                   csvPath, pos, before, dt, parsed>>

Init ==
    /\ build \in {"analyzer.cpp", "part_000"}
    /\ zoneCounts_ = EmptyMap /\ slotCounts_ = EmptyMap
    /\ zoneCounts = EmptyMap /\ slotCounts = EmptyMap
    /\ csvPath = MissingFile /\ pos = 0 /\ pc = "idle"
    /\ before = NoCall /\ out = NoOut
    /\ dt = <<>> /\ parsed = [done |-> FALSE, ok |-> FALSE, hour |-> -1]

Next ==
    \/ ingestFile_B_open
    \/ ingestFile_B_getline
    \/ ingestFile_A_open
    \/ ingestFile_A_getline
    \/ call_topZones_B
    \/ call_topBusySlots_B
    \/ call_topZones_A
    \/ call_topBusySlots_A
    \/ query_return

Spec == Init /\ [][Next]_vars

----------------------------------------------------------------------------
(* Harness for the selectors: both builds side by side, holding the same   *)
(* contents, drawn from every table over SelSlots with counts up to        *)
(* MaxCount (0: the slot is absent).                                       *)

zA  == <<"A">>
zA1 == <<"A", "|", "1">>
zB  == <<"B">>

SelSlots == {<<zA, 9>>, <<zA, 10>>, <<zA1, 9>>, <<zB, 9>>, <<zB, 23>>}

SelPresent(c) == {s \in SelSlots : c[s] > 0}

SelZones(c) == {s[1] : s \in SelPresent(c)}

RECURSIVE SumOver(_, _)
SumOver(f, S) ==
    IF S = {} THEN 0
    ELSE LET x == CHOOSE y \in S : TRUE IN f[x] + SumOver(f, S \ {x})

SelZoneTable(c) ==
    [z \in SelZones(c) |-> SumOver(c, {s \in SelPresent(c) : s[1] = z})]

SelNested(c) ==
    [z \in SelZones(c) |->
        [h \in {s[2] : s \in {t \in SelPresent(c) : t[1] = z}} |-> c[<<z, h>>]]]

SelFlat(c) ==
    [key \in {make_slot_key(s[1], s[2]) : s \in SelPresent(c)} |->
        c[CHOOSE s \in SelPresent(c) : make_slot_key(s[1], s[2]) = key]]

InitSel ==
    /\ build = "both"
    /\ \E c \in [SelSlots -> 0..MaxCount] :
         /\ zoneCounts_ = SelZoneTable(c)
         /\ slotCounts_ = SelNested(c)
         /\ zoneCounts = SelZoneTable(c)
         /\ slotCounts = SelFlat(c)
    /\ csvPath = MissingFile /\ pos = 0 /\ pc = "idle"
    /\ before = NoCall /\ out = NoOut
    /\ dt = <<>> /\ parsed = [done |-> FALSE, ok |-> FALSE, hour |-> -1]

NextSel ==
    \/ call_topZones_B
    \/ call_topBusySlots_B
    \/ call_topZones_A
    \/ call_topBusySlots_A
    \/ query_return

SpecSel == InitSel /\ [][NextSel]_vars

----------------------------------------------------------------------------
(* Harness for the hour extractor: every short string over HourAlphabet,   *)
(* and the documented examples, as the date-time field of a line.          *)

HourAlphabet == {"1", "2", "9", " ", ":", "x"}

StringsUpTo(n) == UNION {[1..m -> HourAlphabet] : m \in 0..n}

Ex_9_07  == <<"2", "0", "2", "4", "-", "0", "1", "-", "0", "5", " ", "9", ":", "0", "7">>
Ex_09_07 == <<"2", "0", "2", "4", "-", "0", "1", "-", "0", "5", " ", "0", "9", ":", "0", "7">>
Ex_23_59 == <<"2", "0", "2", "4", "-", "0", "1", "-", "0", "5", " ", "2", "3", ":", "5", "9">>
Ex_24_00 == <<"2", "0", "2", "4", "-", "0", "1", "-", "0", "5", " ", "2", "4", ":", "0", "0">>
Ex_none  == <<"n", "o", "-", "t", "i", "m", "e", "-", "h", "e", "r", "e">>

HourExamples == {Ex_9_07, Ex_09_07, Ex_23_59, Ex_24_00, Ex_none}

HourInputs == StringsUpTo(MaxLen) \cup HourExamples

\* The text of the line around the field: none, or the columns of a 6-column record.
FieldContexts ==
    { [pre |-> <<>>, suf |-> <<>>],
      [pre |-> <<"7", ",", "Z", ",", ",">>, suf |-> <<",", "1", ":", "3", "0", ",">>] }

NotParsed == [done |-> FALSE, ok |-> FALSE, hour |-> -1]

InitHour ==
    /\ dt \in HourInputs
    /\ parsed = NotParsed
    /\ build = "analyzer.cpp"
    /\ zoneCounts_ = EmptyMap /\ slotCounts_ = EmptyMap
    /\ zoneCounts = EmptyMap /\ slotCounts = EmptyMap
    /\ csvPath = MissingFile /\ pos = 0 /\ pc = "idle"
    /\ before = NoCall /\ out = NoOut

ParseHour ==
    /\ ~parsed.done
    /\ \E c \in FieldContexts :
         LET line == c.pre \o dt \o c.suf
             r    == parse_hour_from_datetime(line, Len(c.pre), Len(c.pre) + Len(dt), -1)
         IN  parsed' = [done |-> TRUE, ok |-> r.ok, hour |-> r.hour]
    /\ UNCHANGED <<build, zoneCounts_, slotCounts_, zoneCounts, slotCounts,
                   csvPath, pos, pc, before, out, dt>>

NextHour == ParseHour

SpecHour == InitHour /\ [][NextHour]_vars

----------------------------------------------------------------------------
(* C2: the hour extractor returns the hour written directly before the     *)
(* colon: "2024-01-05 9:07" -> 9, "2024-01-05 09:07" -> 9,                 *)
(* "2024-01-05 23:59" -> 23; "2024-01-05 24:00" and "no-time-here" fail.   *)
C2_HourExamples ==
    parsed.done =>
        /\ (dt = Ex_9_07  => parsed.ok /\ parsed.hour = 9)
        /\ (dt = Ex_09_07 => parsed.ok /\ parsed.hour = 9)
        /\ (dt = Ex_23_59 => parsed.ok /\ parsed.hour = 23)
        /\ (dt = Ex_24_00 => ~parsed.ok)
        /\ (dt = Ex_none  => ~parsed.ok)

----------------------------------------------------------------------------
(* C3: the date portion (the characters before the first space) is never   *)
(* inspected: replacing it by any other date leaves the outcome unchanged. *)

OtherDates == {<<"1">>, <<"2">>, <<"x">>, <<"x", "9">>, <<"2", "0", "2", "4", "-", "0", "1", "-", "0", "5">>}

FirstSpace(s) == find(s, " ", 0)

\* The field from its first space on (the time portion, space included).
FromFirstSpace(s) == substr(s, FirstSpace(s), Len(s) - FirstSpace(s))

Outcome(s) ==
    LET r == parse_hour_from_datetime(s, 0, Len(s), -1)
    IN  [ok |-> r.ok, hour |-> r.hour]

C3_DateNeverInspected ==
    (parsed.done /\ FirstSpace(dt) # npos /\ FirstSpace(dt) > 0) =>
        \A d \in OtherDates :
            Outcome(d \o FromFirstSpace(dt)) = [ok |-> parsed.ok, hour |-> parsed.hour]

----------------------------------------------------------------------------
(* Vocabulary of the claims: a record's fields, the tables' contents *)

RECURSIVE SplitFields(_)
SplitFields(s) ==
    LET c == find(s, ",", 0)
    IN  IF c = npos THEN <<s>>
        ELSE <<substr(s, 0, c)>> \o SplitFields(substr(s, c + 1, Len(s) - c - 1))

RECURSIVE Strip(_)
Strip(s) ==
    IF s = <<>> THEN s
    ELSE IF is_space(Head(s)) THEN Strip(Tail(s))
    ELSE IF is_space(s[Len(s)]) THEN Strip(SubSeq(s, 1, Len(s) - 1))
    ELSE s

HourOf(field) == parse_hour_from_datetime(field, 0, Len(field), -1)

\* Layout B: six columns, zone in field 1, date-time in field 3.
Malformed_B(line) ==
    LET f == SplitFields(line)
    IN  \/ Len(f) < 6
        \/ Strip(f[2]) = <<>>
        \/ ~HourOf(f[4]).ok

\* Layout A: zone in field 1, date-time in field 2 or else in field 3.
Malformed_A(line) ==
    LET f == SplitFields(line)
    IN  \/ Len(f) < 3
        \/ Strip(f[2]) = <<>>
        \/ (~HourOf(f[3]).ok /\ (Len(f) < 4 \/ ~HourOf(f[4]).ok))

Malformed(line) ==
    IF build = "analyzer.cpp" THEN Malformed_B(line) ELSE Malformed_A(line)

RecordZone(line) == Strip(SplitFields(line)[2])

RecordHour(line) ==
    LET f == SplitFields(line)
    IN  IF build = "analyzer.cpp" THEN HourOf(f[4]).hour
        ELSE IF HourOf(f[3]).ok THEN HourOf(f[3]).hour
        ELSE HourOf(f[4]).hour

Get(m, key) == IF key \in DOMAIN m THEN m[key] ELSE 0

Hours == 0..23

Decimal(h) ==
    IF h < 10 THEN <<Digits[h + 1]>> ELSE <<Digits[(h \div 10) + 1], Digits[(h % 10) + 1]>>

\* The flattened key of slot (z, h): z, a bar, h in decimal.
KeyOf(z, h) == z \o <<"|">> \o Decimal(h)

\* The count of slot (z, h) in the build's slot table.
SlotAt(b, nested, flat, z, h) ==
    IF b = "part_000" THEN Get(flat, KeyOf(z, h))
    ELSE IF z \in DOMAIN nested THEN Get(nested[z], h) ELSE 0

ZoneTable(b, zcB, zcA) == IF b = "part_000" THEN zcA ELSE zcB

Total(m) == SumOver(m, DOMAIN m)

SlotTotal(b, nested, flat) ==
    IF b = "part_000" THEN Total(flat)
    ELSE SumOver([z \in DOMAIN nested |-> Total(nested[z])], DOMAIN nested)

HourSum(b, nested, flat, z) ==
    SumOver([h \in Hours |-> SlotAt(b, nested, flat, z, h)], Hours)

\* Every zone the slot table mentions.
SlotZones(b, nested, flat, zt) ==
    IF b = "part_000"
    THEN {z \in DOMAIN zt : \E h \in Hours : KeyOf(z, h) \in DOMAIN flat}
    ELSE DOMAIN nested

FirstN(seq, n) == SubSeq(seq, 1, n)

Min(a, b) == IF a < b THEN a ELSE b

Max(a, b) == IF a > b THEN a ELSE b

----------------------------------------------------------------------------
(* C1: in every state, for every zone the zone count equals the sum over   *)
(* the hours of its slot counts, and the total of the zone counts equals   *)
(* the total of the slot counts, for the nested slot table and for the     *)
(* flattened "zone|hour" one.                                              *)
C1_ZoneSlotSums ==
    LET zt == ZoneTable(build, zoneCounts_, zoneCounts)
    IN  /\ \A z \in DOMAIN zt : zt[z] = HourSum(build, slotCounts_, slotCounts, z)
        /\ Total(zt) = SlotTotal(build, slotCounts_, slotCounts)
        /\ SlotZones(build, slotCounts_, slotCounts, zt) = DOMAIN zt

C1_Witness_B ==
    /\ build = "analyzer.cpp" /\ pc = "idle" /\ csvPath.lines = MixedFile
    /\ Get(zoneCounts_, <<"1">>) = 2
    /\ SlotAt(build, slotCounts_, slotCounts, <<"1">>, 9) = 1
    /\ SlotAt(build, slotCounts_, slotCounts, <<"1">>, 23) = 1

----------------------------------------------------------------------------
(* C4 as stated: under Layout B the end-to-end dataset makes topZones(2)   *)
(* return [(A,2),(B,1)] and topBusySlots(3) return [(A,9,2),(B,10,1)].     *)
EndToEndDone ==
    build = "analyzer.cpp" /\ pc = "returned" /\ csvPath.lines = EndToEndFile

C4_EndToEnd_AsStated ==
    EndToEndDone =>
        /\ (out.op = "topZones_B" /\ out.k = 2) =>
               out.res = << [zone |-> <<"A">>, count |-> 2], [zone |-> <<"B">>, count |-> 1] >>
        /\ (out.op = "topBusySlots_B" /\ out.k = 3) =>
               out.res = << [zone |-> <<"A">>, hour |-> 9, count |-> 2],
                            [zone |-> <<"B">>, hour |-> 10, count |-> 1] >>

(* C4 amended: the zone is field 1, which is "1" in all three rows, so     *)
(* topZones(2) returns [(1,3)] and topBusySlots(3) returns                 *)
(* [(1,9,2),(1,10,1)].                                                     *)
C4_EndToEnd_Field1 ==
    EndToEndDone =>
        /\ (out.op = "topZones_B" /\ out.k = 2) =>
               out.res = << [zone |-> <<"1">>, count |-> 3] >>
        /\ (out.op = "topBusySlots_B" /\ out.k = 3) =>
               out.res = << [zone |-> <<"1">>, hour |-> 9, count |-> 2],
                            [zone |-> <<"1">>, hour |-> 10, count |-> 1] >>

C4_Witness ==
    EndToEndDone /\ out.op = "topBusySlots_B" /\ out.k = 3 /\ Len(out.res) = 2

----------------------------------------------------------------------------
(* C5: topZones(k) returns exactly the first min(max(k,0), n) entries of a *)
(* full sort of the n zones by (count descending, zone ascending); the     *)
(* output is strictly ordered.                                             *)

ZoneBefore(a, b) ==
    \/ a.count > b.count
    \/ a.count = b.count /\ string_less(a.zone, b.zone)

FullSortZones(S) ==
    [i \in 1..Cardinality(S) |->
        CHOOSE e \in S : Cardinality({f \in S : ZoneBefore(f, e)}) = i - 1]

ZoneContents(zt) == {[zone |-> z, count |-> zt[z]] : z \in DOMAIN zt}

TopZonesExpected(zt, k) ==
    FirstN(FullSortZones(ZoneContents(zt)), Min(Max(k, 0), Cardinality(DOMAIN zt)))

C5_TopZonesIsSortedPrefix ==
    /\ out.op = "topZones_B" =>
          /\ out.res = TopZonesExpected(zoneCounts_, out.k)
          /\ \A i \in 1..(Len(out.res) - 1) : ZoneBefore(out.res[i], out.res[i + 1])
    /\ out.op = "topZones_A" =>
          /\ out.res = TopZonesExpected(zoneCounts, out.k)
          /\ \A i \in 1..(Len(out.res) - 1) : ZoneBefore(out.res[i], out.res[i + 1])

\* The partition path (n > k) with a tie at the cut.
C5_Witness ==
    /\ out.op = "topZones_B" /\ out.k = 2 /\ Len(out.res) = 2
    /\ Cardinality(DOMAIN zoneCounts_) = 3
    /\ \A z \in DOMAIN zoneCounts_ : zoneCounts_[z] = 2

----------------------------------------------------------------------------
(* C6: topBusySlots(k) returns exactly the first min(max(k,0), n) entries  *)
(* of a full sort of the n slots by (count descending, zone ascending,     *)
(* hour ascending), for the bounded heap over the nested table and for the *)
(* partition over the flattened keys alike: on the same contents the two   *)
(* return the same sequence.                                               *)

SlotBefore(a, b) ==
    \/ a.count > b.count
    \/ a.count = b.count /\ string_less(a.zone, b.zone)
    \/ a.count = b.count /\ a.zone = b.zone /\ a.hour < b.hour

FullSortSlots(S) ==
    [i \in 1..Cardinality(S) |->
        CHOOSE e \in S : Cardinality({f \in S : SlotBefore(f, e)}) = i - 1]

NestedContents(nested) ==
    {[zone |-> z, hour |-> h, count |-> nested[z][h]] :
        <<z, h>> \in {p \in (DOMAIN nested) \X Hours : p[2] \in DOMAIN nested[p[1]]}}

FlatContents(flat, zones) ==
    {[zone |-> z, hour |-> h, count |-> flat[KeyOf(z, h)]] :
        <<z, h>> \in {p \in zones \X Hours : KeyOf(p[1], p[2]) \in DOMAIN flat}}

TopSlotsExpected(S, k) == FirstN(FullSortSlots(S), Min(Max(k, 0), Cardinality(S)))

C6_TopBusySlotsIsSortedPrefix ==
    /\ FlatContents(slotCounts, DOMAIN zoneCounts) = NestedContents(slotCounts_)
    /\ Cardinality(FlatContents(slotCounts, DOMAIN zoneCounts)) = Cardinality(DOMAIN slotCounts)
    /\ out.op \in {"topBusySlots_B", "topBusySlots_A"} =>
          out.res = TopSlotsExpected(NestedContents(slotCounts_), out.k)

\* The partition over flat keys cutting through a tie between hours 9 and 10
\* of one zone, with a zone that contains the bar.
C6_Witness ==
    /\ out.op = "topBusySlots_A" /\ out.k = 3 /\ Len(out.res) = 3
    /\ Cardinality(DOMAIN slotCounts) = 5
    /\ \A key \in DOMAIN slotCounts : slotCounts[key] = 1
    /\ out.res[1].hour = 9 /\ out.res[2].hour = 10 /\ out.res[3].zone = zA1

C6_Witness_Heap ==
    /\ out.op = "topBusySlots_B" /\ out.k = 3 /\ Len(out.res) = 3
    /\ Cardinality(NestedContents(slotCounts_)) = 5

----------------------------------------------------------------------------
(* What one ingestFile call on a fresh analyzer leaves in the tables *)

NoTables == [zoneCounts |-> EmptyMap, slotCounts |-> EmptyMap]

RECURSIVE FoldLines(_, _, _)
FoldLines(b, t, lines) ==
    IF lines = <<>> THEN t
    ELSE FoldLines(b,
                   IF b = "analyzer.cpp"
                   THEN ingestLine_B(t.zoneCounts, t.slotCounts, Head(lines))
                   ELSE ingestLine_A(t.zoneCounts, t.slotCounts, Head(lines)),
                   Tail(lines))

SingleIngest(b, src) ==
    IF ~src.readable THEN NoTables
    ELSE IF b = "part_000" THEN FoldLines(b, NoTables, src.lines)
    ELSE IF src.lines = <<>> THEN NoTables
    ELSE FoldLines(b, NoTables, Tail(src.lines))

Tables(b, zcB, scB, zcA, scA) ==
    IF b = "part_000" THEN [zoneCounts |-> zcA, slotCounts |-> scA]
    ELSE [zoneCounts |-> zcB, slotCounts |-> scB]

----------------------------------------------------------------------------
(* C7: ingestFile clears both tables first: after any sequence of calls    *)
(* the tables are those of a single ingestFile of the last source on a     *)
(* fresh analyzer; ingesting the same source twice does not double counts. *)
C7_TablesAreThoseOfLastSource ==
    (pc = "idle" /\ before.called) =>
        Tables(build, zoneCounts_, slotCounts_, zoneCounts, slotCounts)
            = SingleIngest(build, csvPath)

\* The same source ingested a second time, on top of its own counts.
C7_Witness ==
    /\ pc = "idle" /\ before.called /\ before.same /\ before.populated
    /\ build = "analyzer.cpp" /\ Get(zoneCounts_, <<"1">>) = 2

----------------------------------------------------------------------------
(* C8: ingestFile on a missing or unreadable source leaves both tables     *)
(* empty, also when an earlier call had populated them, and topZones(k)    *)
(* and topBusySlots(k) then return empty sequences for every k.            *)
C8_MissingSourceEmptiesTables ==
    (pc # "reading" /\ before.called /\ ~csvPath.readable) =>
        /\ zoneCounts_ = EmptyMap /\ slotCounts_ = EmptyMap
        /\ zoneCounts = EmptyMap /\ slotCounts = EmptyMap
        /\ pc = "returned" => out.res = <<>>
        /\ \A k \in Ks :
              /\ topZones(ZoneTable(build, zoneCounts_, zoneCounts), k) = {<<>>}
              /\ build = "analyzer.cpp" => topBusySlots_B(slotCounts_, k) = {<<>>}
              /\ build = "part_000" => topBusySlots_A(slotCounts, k) = {<<>>}

\* A query with k > 0 after a populated analyzer ingested the missing source.
C8_Witness ==
    /\ pc = "returned" /\ before.called /\ before.populated /\ ~csvPath.readable
    /\ build = "part_000" /\ out.op = "topBusySlots_A" /\ out.k = MaxK /\ out.res = <<>>

----------------------------------------------------------------------------
(* C9: a malformed record (too few fields, zone empty after trim, hour     *)
(* extraction failing) changes neither table and ingestion continues with  *)
(* the next line; an accepted record adds 1 to exactly one zone entry and  *)
(* to exactly one slot entry, whose hour is in 0..23; the tables at the    *)
(* end are those of the source with its malformed lines removed.           *)

WithoutMalformed(b, lines) ==
    IF b = "part_000" THEN SelectSeq(lines, LAMBDA l : ~Malformed_A(l))
    ELSE IF lines = <<>> THEN <<>>
    ELSE <<Head(lines)>> \o SelectSeq(Tail(lines), LAMBDA l : ~Malformed_B(l))

C9_Line ==
    (pc = "reading" /\ pos < Len(csvPath.lines)) =>
        LET line == csvPath.lines[pos + 1]
            zt   == ZoneTable(build, zoneCounts_, zoneCounts)
            zt2  == ZoneTable(build, zoneCounts_', zoneCounts')
        IN  /\ pc' = "reading" /\ pos' = pos + 1
            /\ IF Malformed(line)
               THEN UNCHANGED <<zoneCounts_, slotCounts_, zoneCounts, slotCounts>>
               ELSE LET z == RecordZone(line)
                        h == RecordHour(line)
                    IN  /\ h \in Hours
                        /\ DOMAIN zt2 = DOMAIN zt \cup {z}
                        /\ \A y \in DOMAIN zt2 :
                              /\ zt2[y] = Get(zt, y) + (IF y = z THEN 1 ELSE 0)
                              /\ \A g \in Hours :
                                    SlotAt(build, slotCounts_', slotCounts', y, g)
                                      = SlotAt(build, slotCounts_, slotCounts, y, g)
                                          + (IF y = z /\ g = h THEN 1 ELSE 0)
                        /\ SlotTotal(build, slotCounts_', slotCounts')
                              = SlotTotal(build, slotCounts_, slotCounts) + 1

C9_End ==
    (pc = "reading" /\ pc' = "idle") =>
        Tables(build, zoneCounts_', slotCounts_', zoneCounts', slotCounts')
            = SingleIngest(build, [readable |-> TRUE,
                                   lines |-> WithoutMalformed(build, csvPath.lines)])

C9_MalformedRecordsAreSkipped == [][C9_Line /\ C9_End]_vars

\* Past a malformed line, the next record has been counted.
C9_Witness ==
    /\ pc = "reading" /\ pos = 3 /\ build = "part_000"
    /\ csvPath.lines[2] = L_badhour /\ csvPath.lines[3] = L_two
    /\ Get(slotCounts, KeyOf(zA1, 5)) = 1

----------------------------------------------------------------------------
(* C10: under Layout B the first line is discarded unconditionally: it     *)
(* never contributes to a table, even when it is a well-formed record, and *)
(* every later well-formed line is counted; a one-line source leaves the   *)
(* tables empty.                                                           *)

\* The well-formed lines among lines[from..] with zone z (and hour h).
Records(lines, from) == {i \in from..Len(lines) : ~Malformed_B(lines[i])}

C10_FirstLineDiscarded ==
    (build = "analyzer.cpp" /\ pc = "idle" /\ before.called /\ csvPath.readable) =>
        LET lines == csvPath.lines
            recs  == Records(lines, 2)
            zones == DOMAIN zoneCounts_ \cup DOMAIN slotCounts_
                        \cup {RecordZone(lines[i]) : i \in recs}
        IN  /\ \A z \in zones :
                 /\ Get(zoneCounts_, z)
                      = Cardinality({i \in recs : RecordZone(lines[i]) = z})
                 /\ \A h \in Hours :
                      SlotAt(build, slotCounts_, slotCounts, z, h)
                        = Cardinality({i \in recs : /\ RecordZone(lines[i]) = z
                                                    /\ RecordHour(lines[i]) = h})
            /\ Len(lines) <= 1 => zoneCounts_ = EmptyMap /\ slotCounts_ = EmptyMap

\* A well-formed first line (zone 1, hour 23) left out, the second line counted.
C10_Witness ==
    /\ build = "analyzer.cpp" /\ pc = "idle" /\ before.called
    /\ csvPath.lines = <<L_12359, L_A0915>>
    /\ zoneCounts_[<<"1">>] = 1
    /\ SlotAt(build, slotCounts_, slotCounts, <<"1">>, 23) = 0
    /\ SlotAt(build, slotCounts_, slotCounts, <<"1">>, 9) = 1

====
